---------------------------- MODULE Spec2Model ----------------------------
(***************************************************************************)
(* Model of src/ffmpeg_lambda.py: the video pipeline of videocloud-ffmpeg. *)
(*                                                                         *)
(* handler(event, context) is a straight-line function; the model runs it  *)
(* one statement group at a time (pc), so that invocations can be          *)
(* followed stage by stage.  The functions the handler calls are operators *)
(* with the source's names; each takes the part of the world it reads      *)
(* (the scratch directory, the answer of the storage service) and returns  *)
(* what it returns or raises together with the world it leaves.            *)
(*                                                                         *)
(* Strings that the code takes apart or puts together (the file name, its  *)
(* stem, the keys and paths built from it) are sequences of tokens, so     *)
(* that unquote, Path(...).stem and the concatenations are computed.       *)
(*                                                                         *)
(* Python semantics the code depends on are modelled as Python executes    *)
(* them: a call that leaves out a required positional argument raises      *)
(* TypeError (line 220 calls get_ffmpeg_command(), whose parameter task    *)
(* has no default), comparing None with an integer raises TypeError (line  *)
(* 142), and subprocess.run raises TypeError when the first element of its *)
(* argument is not a string or a path (line 110 hands it the pair that     *)
(* line 84 returns).  The statements of handler after line 220 are in the  *)
(* model as they are in the source; HandlerStopsInValidation records that  *)
(* no invocation gets to them.                                             *)
(***************************************************************************)
EXTENDS Naturals, Sequences, FiniteSets

\* Largest byte count the storage service or statvfs reports in the model.
MaxBytes == 1
\* Longest task list of a request.
MaxTasks == 1

\* Most entries whose removal fails in one clearing of the scratch directory.
MaxStuck == 1

\* Invocation slots.  Spec runs the invocations one at a time, in slot 1.
Inv == {1, 2}

---------------------------------------------------------------------------
\* Module constants (lines 12-27)

FFMPEG_DIR == "/opt/ffmpeg"
TEMP_DIR == <<"/tmp">>
S3_SOURCE_BUCKET == "videocloud-s3"
S3_SOURCE_PATH == <<"uploads/">>
S3_RENDERED_PATH == <<"rendered/">>

---------------------------------------------------------------------------
\* Strings as token sequences

\* urllib.parse.unquote on one token: a percent escape becomes its character.
UnquoteToken(t) ==
    CASE t = "%2E" -> "."
      [] t = "%25" -> "%"
      [] OTHER -> t

\* unquote(event.get("filename", "")) (line 207).
unquote(s) == [k \in 1..Len(s) |-> UnquoteToken(s[k])]

\* Index of the last "." token of a name, 0 when there is none (str.rfind).
RFindDot(name) ==
    LET dots == {k \in 1..Len(name) : name[k] = "."}
    IN IF dots = {} THEN 0 ELSE CHOOSE k \in dots : \A j \in dots : j <= k

\* Path(filename).stem for a name without "/": the name without its last
\* suffix; a leading or a trailing dot starts no suffix (pathlib).
Stem(name) ==
    LET k == RFindDot(name)
    IN IF 1 < k /\ k < Len(name) THEN SubSeq(name, 1, k - 1) ELSE name

\* f"{str(Path(filename).stem)}_rendered.mp4" (line 214).
RenderedFilename(filename) == Stem(filename) \o <<"_rendered", ".", "mp4">>

\* S3_SOURCE_PATH + filename (line 213), S3_RENDERED_PATH + ... (line 215).
S3Key(filename) == S3_SOURCE_PATH \o filename
RenderedS3Key(filename) == S3_RENDERED_PATH \o RenderedFilename(filename)

\* f"{TEMP_DIR}/{filename}" and f"{TEMP_DIR}/{rendered_filename}" (227-228).
LocalVideoPath(filename) == TEMP_DIR \o <<"/">> \o filename
RenderedFilePath(filename) == TEMP_DIR \o <<"/">> \o RenderedFilename(filename)

---------------------------------------------------------------------------
\* Requests

\* The "filename" values of the requests: none, a plain name, and a name
\* that decodes to a dot file.
EventFilenames == { <<>>, <<"clip", ".", "mov">>, <<"%2E", "hid">> }

Filenames == { unquote(f) : f \in EventFilenames } \ { <<>> }

\* Task names a request may carry: the two of the table and one outside it.
RequestTaskNames == {"h264_mp4_light", "h264_mp4_medium", "gif"}

\* event.get("tasks", None): None when the key is missing.
NoTasks == [given |-> FALSE, list |-> <<>>]
EventTasks ==
    {NoTasks} \cup
    { [given |-> TRUE, list |-> l] :
        l \in UNION { [1..n -> RequestTaskNames] : n \in 0..MaxTasks } }

Events == [filename : EventFilenames, tasks : EventTasks]

NoEvent == [filename |-> <<>>, tasks |-> NoTasks]

---------------------------------------------------------------------------
\* The task table (lines 30-84)

command_header(file_path) ==
    <<FFMPEG_DIR, "-hide_banner", "-loglevel", "warning", "-i", file_path>>

command_footer(rendered_file_path) ==
    <<"-profile:v", "baseline", "-y", rendered_file_path>>

TaskNames == {"h264_mp4_light", "h264_mp4_medium"}

ffmpeg_tasks(file_path, rendered_file_path) ==
    [t \in TaskNames |->
        IF t = "h264_mp4_light"
        THEN command_header(file_path)
             \o <<"-c:v", "libx264", "-pix_fmt", "yuv420p",
                  "-preset", "veryfast", "-crf", "26">>
             \o command_footer(rendered_file_path)
        ELSE command_header(file_path)
             \o <<"-c:v", "libx264", "-pix_fmt", "yuv420p",
                  "-preset", "medium", "-crf", "22">>
             \o command_footer(rendered_file_path)]

\* A Python value handed to subprocess.run: a list of arguments, or the pair
\* (command, task_types) that get_ffmpeg_command returns; command None is
\* found = FALSE.
NoArgs == [kind |-> "none", found |-> FALSE, command |-> <<>>, task_types |-> {}]

PyList(items) ==
    [kind |-> "list", found |-> TRUE, command |-> items, task_types |-> {}]

\* get_ffmpeg_command(task, file_path, rendered_file_path): returns the pair
\* (command, task_types) (line 84).
get_ffmpeg_command(task, file_path, rendered_file_path) ==
    LET tbl == ffmpeg_tasks(file_path, rendered_file_path)
    IN [kind |-> "tuple",
        found |-> task \in DOMAIN tbl,
        command |-> IF task \in DOMAIN tbl THEN tbl[task] ELSE <<>>,
        task_types |-> DOMAIN tbl]


\* A Python call of get_ffmpeg_command with the positional arguments args:
\* task has no default (line 31), so a call without it raises TypeError
\* before the body runs; file_path and rendered_file_path default to "".
Call_get_ffmpeg_command(args) ==
    IF Len(args) < 1
    THEN [raised |-> "TypeError", value |-> NoArgs]
    ELSE [raised |-> "",
          value |-> get_ffmpeg_command(
                        args[1],
                        IF Len(args) >= 2 THEN args[2] ELSE <<>>,
                        IF Len(args) >= 3 THEN args[3] ELSE <<>>)]

\* subprocess.run(args, capture_output=True): Popen takes args[0] as the
\* executable and raises TypeError unless it is a string or a path; the
\* first element of the pair (command, task_types) is a list (or None).
subprocess_run(args) ==
    IF args.kind = "list" /\ Len(args.command) > 0 THEN "ran" ELSE "TypeError"

---------------------------------------------------------------------------
\* The scratch directory

OldEntry == TEMP_DIR \o <<"/", "old">>

Paths ==
    { LocalVideoPath(f) : f \in Filenames }
    \cup { RenderedFilePath(f) : f \in Filenames }
    \cup { OldEntry }

\* os.path.isfile, os.path.exists, os.path.isdir on a scratch state.
isfile(scr, p) == p \in DOMAIN scr /\ scr[p] = "file"
exists(scr, p) == p \in DOMAIN scr /\ scr[p] # "absent"
isdir(scr, p) == p \in DOMAIN scr /\ scr[p] = "dir"

Entries(scr) == { p \in DOMAIN scr : scr[p] # "absent" }

\* The sets of entries that may resist removal in one clearing.
StuckSets(scr) == { S \in SUBSET Entries(scr) : Cardinality(S) <= MaxStuck }

\* A name the shell pattern * does not match: it starts with a dot.
Hidden(p) == p[Len(TEMP_DIR) + 2] = "."

\* subprocess.call("rm -rf /tmp/*", shell=True) (line 231): the shell expands
\* the pattern to the entries whose names do not start with a dot, rm removes
\* them except those it cannot (stuck), and the exit status is not looked at.
RmRfTmp(scr, stuck) ==
    [p \in DOMAIN scr |->
        IF exists(scr, p) /\ ~Hidden(p) /\ p \notin stuck
        THEN "absent" ELSE scr[p]]

\* clean_up_folder(folder_path) (lines 164-177).  listable: os.listdir
\* succeeds (it is outside the try); stuck: the entries whose unlink or
\* rmtree raises.  An entry that is no file, link or directory is skipped.
clean_up_folder(scr, listable, stuck) ==
    IF ~listable
    THEN [raised |-> "OSError", ret |-> FALSE, scratch |-> scr]
    ELSE LET removable(p) == isfile(scr, p) \/ isdir(scr, p)
         IN [raised |-> "",
             ret |-> \A p \in Entries(scr) : removable(p) => p \notin stuck,
             scratch |-> [p \in DOMAIN scr |->
                             IF exists(scr, p) /\ removable(p) /\ p \notin stuck
                             THEN "absent" ELSE scr[p]]]

---------------------------------------------------------------------------
\* Object transfer and capacity guard

\* The remote bucket: objects[f] is <<>> when uploads/<f> is missing and
\* <<n>> when it holds n bytes.
Missing == <<>>

\* What s3.head_object can answer for an object: "ok" only when it is there.
HeadOutcomes(obj) ==
    IF obj = Missing THEN {"ClientError", "BotoCoreError"}
    ELSE {"ok", "ClientError", "BotoCoreError"}

\* s3.head_object as get_obj_file_size sees it (lines 154-161): head is
\* "ok" (the object is there and readable), "ClientError" (missing or access
\* denied: caught, the size stays None) or "BotoCoreError" (no connection:
\* not caught).
get_obj_file_size(obj, head) ==
    IF head = "BotoCoreError"
    THEN [raised |-> "BotoCoreError", isNone |-> TRUE, size |-> 0]
    ELSE IF head = "ClientError" \/ obj = Missing
         THEN [raised |-> "", isNone |-> TRUE, size |-> 0]
         ELSE [raised |-> "", isNone |-> FALSE, size |-> obj[1]]

\* check_available_space (lines 139-151): the error it raises, "" when it
\* returns.  None < 0 raises TypeError; a size is never negative.
check_available_space(available_bytes, obj, head) ==
    LET object_bytes == get_obj_file_size(obj, head)
    IN IF object_bytes.raised # "" THEN object_bytes.raised
       ELSE IF object_bytes.isNone THEN "TypeError"
       ELSE IF object_bytes.size < 0 THEN "key not found in bucket"
       ELSE IF object_bytes.size > available_bytes THEN "Out of space"
       ELSE ""

\* download_video without the except clause: the client's exception leaves it.
download_video_NoCatch(scr, obj, file_path, transport) ==
    IF transport /\ obj # Missing
    THEN [raised |-> "", ret |-> TRUE,
          scratch |-> [scr EXCEPT ![file_path] = "file"]]
    ELSE [raised |-> "ClientError", ret |-> FALSE, scratch |-> scr]

\* download_video (lines 87-96).  transport: s3.download_file succeeds; any
\* exception of it is caught and gives False.  The file is written on success.
download_video(scr, obj, file_path, transport) ==
    IF transport /\ obj # Missing
    THEN [raised |-> "", ret |-> TRUE,
          scratch |-> [scr EXCEPT ![file_path] = "file"]]
    ELSE [raised |-> "", ret |-> FALSE, scratch |-> scr]

\* upload_video (lines 119-136).  os.path.getsize (line 127) is outside the
\* try and raises when the rendered file is missing; any exception of
\* s3.upload_file is caught and gives False.
upload_video(scr, rendered_file_path, transport) ==
    IF ~exists(scr, rendered_file_path)
    THEN [raised |-> "OSError", ret |-> FALSE, attempted |-> FALSE, sent |-> FALSE]
    ELSE [raised |-> "", ret |-> transport, attempted |-> TRUE, sent |-> transport]

\* render_video without its first assertion: a missing input is not looked
\* for, and the command is run.
render_video_NoInputCheck(scr, file_path, rendered_file_path, childOut) ==
    LET ffmpeg_command ==
            Call_get_ffmpeg_command(
                <<"h264_mp4_light", file_path, rendered_file_path>>).value
        res == subprocess_run(ffmpeg_command)
    IN IF res = "TypeError"
       THEN [raised |-> "TypeError", ret |-> FALSE,
             args |-> ffmpeg_command, scratch |-> scr]
       ELSE [raised |-> "", ret |-> FALSE,
             args |-> ffmpeg_command, scratch |-> scr]

\* render_video (lines 99-116).  It resolves the command for the fixed name
\* "h264_mp4_light" and hands what get_ffmpeg_command returned to
\* subprocess.run.  childOut: the child wrote the output file.
render_video(scr, file_path, rendered_file_path, childOut) ==
    IF ~isfile(scr, file_path)
    THEN [raised |-> "video file not downloaded", ret |-> FALSE,
          args |-> NoArgs, scratch |-> scr]
    ELSE LET ffmpeg_command ==
                 Call_get_ffmpeg_command(
                     <<"h264_mp4_light", file_path, rendered_file_path>>).value
             res == subprocess_run(ffmpeg_command)
             after == IF childOut
                      THEN [scr EXCEPT ![rendered_file_path] = "file"]
                      ELSE scr
         IN IF res = "TypeError"
            THEN [raised |-> "TypeError", ret |-> FALSE,
                  args |-> ffmpeg_command, scratch |-> scr]
            ELSE IF ~exists(after, rendered_file_path)
                 THEN [raised |-> "OSError", ret |-> FALSE,
                       args |-> ffmpeg_command, scratch |-> after]
                 ELSE [raised |-> "", ret |-> TRUE,
                       args |-> ffmpeg_command, scratch |-> after]

---------------------------------------------------------------------------
\* State

VARIABLES
    pc,        \* pc[i]: where invocation i is in handler
    event,     \* event[i]: the request of invocation i
    log,       \* log[i]: the stages invocation i ran, each with its outcome
    calls,     \* calls[i]: the network and child-process calls it made, in order
    err,       \* err[i]: the message of the exception that ended it, or ""
    runArgs,   \* runArgs[i]: what it handed to subprocess.run, or NoArgs
    created,   \* created[i]: the scratch paths it wrote
    scratch,   \* the scratch directory: path -> "absent", "file", "dir", "fifo"
    objects,   \* the bucket's uploads/: file name -> Missing or <<bytes>>
    free,      \* bytes available in the scratch filesystem (statvfs)
    stored,    \* the keys written under rendered/
    last       \* the last direct call of one of the module's functions

vars == <<pc, event, log, calls, err, runArgs, created,
          scratch, objects, free, stored, last>>

invVars == <<pc, event, log, calls, err, runArgs, created>>
worldVars == <<scratch, objects, free, stored>>

\* transportFailed: the storage client raised in the call; noisy: the ffmpeg
\* binary, when it is run on the input, writes to its standard error;
\* before: the scratch directory as it was when the function was called.
NoCall == [fn |-> "", file |-> <<>>, raised |-> "", ret |-> FALSE,
           transportFailed |-> FALSE, head |-> "", noisy |-> FALSE,
           args |-> NoArgs, before |-> <<>>]

Running == {"probe", "validate", "clear", "space", "download", "render",
            "upload", "cleanup"}

Ended == {"idle", "done", "failed"}

\* The scratch directory before the first call: what earlier runs may have
\* left (a source file, a rendered file) and a foreign entry.
InitScratch ==
    { s \in [Paths -> {"absent", "file", "dir", "fifo"}] :
        /\ \A f \in Filenames :
              /\ s[LocalVideoPath(f)] \in {"absent", "file"}
              /\ s[RenderedFilePath(f)] \in {"absent", "file"}
              /\ Hidden(LocalVideoPath(f)) =>
                    /\ s[LocalVideoPath(f)] = "absent"
                    /\ s[RenderedFilePath(f)] = "absent"
        /\ s[OldEntry] \in {"absent", "dir", "fifo"} }

\* The bucket: the plain name's object is missing or has any size; the dot
\* file's object is there, empty.
InitObjects ==
    { o \in [Filenames -> {Missing} \cup { <<n>> : n \in 0..MaxBytes }] :
        \A f \in Filenames : Hidden(LocalVideoPath(f)) => o[f] = <<0>> }

Init ==
    /\ pc = [i \in Inv |-> "idle"]
    /\ event = [i \in Inv |-> NoEvent]
    /\ log = [i \in Inv |-> <<>>]
    /\ calls = [i \in Inv |-> <<>>]
    /\ err = [i \in Inv |-> ""]
    /\ runArgs = [i \in Inv |-> NoArgs]
    /\ created = [i \in Inv |-> {}]
    /\ scratch \in InitScratch
    /\ objects \in InitObjects
    /\ free \in 0..MaxBytes
    /\ stored = {}
    /\ last = NoCall

---------------------------------------------------------------------------
\* handler (lines 203-255)

filename(i) == unquote(event[i].filename)

\* Raise with the exception caught in a loop around the stage: the stage is
\* tried again.
Raise_TryAgain(i, stage, e) ==
    /\ pc' = pc
    /\ err' = [err EXCEPT ![i] = e]
    /\ log' = log

\* An exception leaves handler: the stage is logged as failed.
Raise(i, stage, e) ==
    /\ pc' = [pc EXCEPT ![i] = "failed"]
    /\ err' = [err EXCEPT ![i] = e]
    /\ log' = [log EXCEPT ![i] = Append(@, [stage |-> stage, ok |-> FALSE])]

\* The stage is done and handler goes on at next.
Pass(i, stage, next) ==
    /\ pc' = [pc EXCEPT ![i] = next]
    /\ err' = err
    /\ log' = [log EXCEPT ![i] = Append(@, [stage |-> stage, ok |-> TRUE])]

\* The trigger calls handler(event, context) (line 203).
Invoke(i, ev) ==
    /\ pc[i] \in Ended
    /\ pc' = [pc EXCEPT ![i] = "probe"]
    /\ event' = [event EXCEPT ![i] = ev]
    /\ log' = [log EXCEPT ![i] = <<>>]
    /\ calls' = [calls EXCEPT ![i] = <<>>]
    /\ err' = [err EXCEPT ![i] = ""]
    /\ runArgs' = [runArgs EXCEPT ![i] = NoArgs]
    /\ created' = [created EXCEPT ![i] = {}]
    /\ last' = NoCall
    /\ UNCHANGED worldVars

\* Line 205: get_ffmpeg_version() starts the ffmpeg binary (lines 187-200);
\* Popen raises OSError when the binary cannot be started.
HandlerProbe(i) ==
    /\ calls' = [calls EXCEPT ![i] = Append(@, "ffmpeg_version")]
    /\ \E started \in BOOLEAN :
          IF started THEN Pass(i, "version", "validate")
                     ELSE Raise(i, "version", "OSError")
    /\ UNCHANGED <<event, runArgs, created, last>>
    /\ UNCHANGED worldVars

\* ValidationError without lines 220-222: the task names are not checked.
ValidationError_NoTaskCheck(ev) ==
    LET fname == unquote(ev.filename)
        tasks == ev.tasks
    IN IF S3Key(fname) = S3_SOURCE_PATH THEN "filename is required"
       ELSE IF fname = <<>> THEN "filename is required"
       ELSE IF ~tasks.given \/ tasks.list = <<>> THEN "task(s) are required"
       ELSE ""

\* Lines 207-222: the message of the exception the validation raises for a
\* request, "" when it passes.  Line 220 calls get_ffmpeg_command().
ValidationError(ev) ==
    LET fname == unquote(ev.filename)
        tasks == ev.tasks
        r == Call_get_ffmpeg_command(<<>>)
    IN IF S3Key(fname) = S3_SOURCE_PATH THEN "filename is required"
       ELSE IF fname = <<>> THEN "filename is required"
       ELSE IF ~tasks.given \/ tasks.list = <<>> THEN "task(s) are required"
       ELSE IF r.raised # "" THEN r.raised
       ELSE IF \E k \in 1..Len(tasks.list) :
                   tasks.list[k] \notin r.value.task_types
            THEN "task must be one of"
       ELSE ""

\* HandlerValidate with the exception caught and logged: handler goes on.
HandlerValidate_Swallow(i) ==
    /\ LET e == ValidationError(event[i])
       IN /\ pc' = [pc EXCEPT ![i] = "clear"]
          /\ err' = [err EXCEPT ![i] = e]
          /\ log' = [log EXCEPT
                       ![i] = Append(@, [stage |-> "validate", ok |-> e = ""])]
    /\ UNCHANGED <<event, calls, runArgs, created, last>>
    /\ UNCHANGED worldVars

\* HandlerValidate with the shell command of line 231 moved before the
\* assertions: the scratch directory is cleared, then the request is looked at.
HandlerValidate_ClearFirst(i) ==
    /\ LET e == ValidationError(event[i])
       IN IF e = "" THEN Pass(i, "validate", "clear")
                    ELSE Raise(i, "validate", e)
    /\ scratch' = RmRfTmp(scratch, {})
    /\ UNCHANGED <<event, calls, runArgs, created, last, objects, free, stored>>

HandlerValidate(i) ==
    /\ LET e == ValidationError(event[i])
       IN IF e = "" THEN Pass(i, "validate", "clear")
                    ELSE Raise(i, "validate", e)
    /\ UNCHANGED <<event, calls, runArgs, created, last>>
    /\ UNCHANGED worldVars

\* Line 231: the scratch directory is cleared by a shell command.
HandlerClear(i) ==
    /\ \E stuck \in StuckSets(scratch) :
          scratch' = RmRfTmp(scratch, stuck)
    /\ calls' = [calls EXCEPT ![i] = Append(@, "rm_rf")]
    /\ Pass(i, "clear", "space")
    /\ UNCHANGED <<event, runArgs, created, last, objects, free, stored>>

\* Line 233.
HandlerSpace(i) ==
    /\ calls' = [calls EXCEPT ![i] = Append(@, "head_object")]
    /\ \E head \in HeadOutcomes(objects[filename(i)]) :
          LET e == check_available_space(free, objects[filename(i)], head)
          IN IF e = "" THEN Pass(i, "space", "download")
                       ELSE Raise(i, "space", e)
    /\ UNCHANGED <<event, runArgs, created, last>>
    /\ UNCHANGED worldVars

\* Lines 235-238.
HandlerDownload(i) ==
    /\ calls' = [calls EXCEPT ![i] = Append(@, "download_file")]
    /\ \E transport \in BOOLEAN :
          LET r == download_video(scratch, objects[filename(i)],
                                  LocalVideoPath(filename(i)), transport)
          IN /\ scratch' = r.scratch
             /\ IF r.raised # ""
                THEN /\ Raise(i, "fetch", r.raised)
                     /\ created' = created
                ELSE IF r.ret
                THEN /\ Pass(i, "fetch", "render")
                     /\ created' = [created EXCEPT
                                      ![i] = @ \cup {LocalVideoPath(filename(i))}]
                ELSE /\ Raise(i, "fetch", "download failed, file may not exist")
                     /\ created' = created
    /\ UNCHANGED <<event, runArgs, last, objects, free, stored>>

\* Lines 240-243.
HandlerRender(i) ==
    /\ \E childOut \in BOOLEAN :
          LET r == render_video(scratch, LocalVideoPath(filename(i)),
                                RenderedFilePath(filename(i)), childOut)
          IN /\ scratch' = r.scratch
             /\ runArgs' = [runArgs EXCEPT ![i] = r.args]
             /\ calls' = [calls EXCEPT
                            ![i] = IF r.args.kind = "none" THEN @
                                   ELSE Append(@, "subprocess_run")]
             /\ created' = [created EXCEPT
                              ![i] = @ \cup (Entries(r.scratch) \ Entries(scratch))]
             /\ IF r.raised # "" THEN Raise(i, "render", r.raised)
                ELSE IF ~r.ret THEN Raise(i, "render", "rendering failed")
                ELSE Pass(i, "render", "upload")
    /\ UNCHANGED <<event, last, objects, free, stored>>

\* Lines 245-248.
HandlerUpload(i) ==
    /\ \E transport \in BOOLEAN :
          LET r == upload_video(scratch, RenderedFilePath(filename(i)), transport)
          IN /\ calls' = [calls EXCEPT
                            ![i] = IF r.attempted THEN Append(@, "upload_file")
                                   ELSE @]
             /\ stored' = IF r.sent THEN stored \cup {RenderedS3Key(filename(i))}
                          ELSE stored
             /\ IF r.raised # "" THEN Raise(i, "store", r.raised)
                ELSE IF ~r.ret THEN Raise(i, "store", "upload failed")
                ELSE Pass(i, "store", "cleanup")
    /\ UNCHANGED <<event, runArgs, created, last, scratch, objects, free>>

\* Lines 250-255: the result of clean_up_folder is only logged, and handler
\* returns {"data": "success"} (pc "done").
HandlerCleanup(i) ==
    /\ \E listable \in BOOLEAN, stuck \in StuckSets(scratch) :
          LET r == clean_up_folder(scratch, listable, stuck)
          IN /\ scratch' = r.scratch
             /\ IF r.raised # ""
                THEN Raise(i, "cleanup", r.raised)
                ELSE /\ pc' = [pc EXCEPT ![i] = "done"]
                     /\ err' = err
                     /\ log' = [log EXCEPT
                                  ![i] = Append(@, [stage |-> "cleanup",
                                                    ok |-> r.ret])]
    /\ UNCHANGED <<event, calls, runArgs, created, last, objects, free, stored>>

\* One step of invocation i: the statement group its pc is at.
handler(i) ==
    /\ pc[i] \in Running
    /\ CASE pc[i] = "probe" -> HandlerProbe(i)
         [] pc[i] = "validate" -> HandlerValidate(i)
         [] pc[i] = "clear" -> HandlerClear(i)
         [] pc[i] = "space" -> HandlerSpace(i)
         [] pc[i] = "download" -> HandlerDownload(i)
         [] pc[i] = "render" -> HandlerRender(i)
         [] pc[i] = "upload" -> HandlerUpload(i)
         [] pc[i] = "cleanup" -> HandlerCleanup(i)

---------------------------------------------------------------------------
\* Direct calls of the module's functions by a caller other than handler
\* (a test, a shell), between invocations, with the arguments handler builds
\* for a file name.

Quiet == \A i \in Inv : pc[i] \in Ended

\* The records of the invocations are dropped when a function is called
\* directly (Invoke drops the record of the direct call).
ForgetInvocations ==
    /\ pc' = [i \in Inv |-> "idle"]
    /\ event' = [i \in Inv |-> NoEvent]
    /\ log' = [i \in Inv |-> <<>>]
    /\ calls' = [i \in Inv |-> <<>>]
    /\ err' = [i \in Inv |-> ""]
    /\ runArgs' = [i \in Inv |-> NoArgs]
    /\ created' = [i \in Inv |-> {}]

CallCheckAvailableSpace(f, head) ==
    /\ Quiet
    /\ ForgetInvocations
    /\ last' = [NoCall EXCEPT
                  !.fn = "check_available_space", !.file = f, !.head = head,
                  !.raised = check_available_space(free, objects[f], head)]
    /\ UNCHANGED worldVars

CallDownloadVideo(f, transport) ==
    /\ Quiet
    /\ ForgetInvocations
    /\ LET r == download_video(scratch, objects[f], LocalVideoPath(f), transport)
       IN /\ scratch' = r.scratch
          /\ last' = [NoCall EXCEPT
                        !.fn = "download_video", !.file = f,
                        !.raised = r.raised, !.ret = r.ret,
                        !.transportFailed = ~(transport /\ objects[f] # Missing)]
    /\ UNCHANGED <<objects, free, stored>>

CallRenderVideo(f, childOut, noisy) ==
    /\ Quiet
    /\ ForgetInvocations
    /\ LET r == render_video(scratch, LocalVideoPath(f), RenderedFilePath(f),
                             childOut)
       IN /\ scratch' = r.scratch
          /\ last' = [NoCall EXCEPT
                        !.fn = "render_video", !.file = f, !.noisy = noisy,
                        !.before = scratch,
                        !.raised = r.raised, !.ret = r.ret, !.args = r.args]
    /\ UNCHANGED <<objects, free, stored>>

CallUploadVideo(f, transport) ==
    /\ Quiet
    /\ ForgetInvocations
    /\ LET r == upload_video(scratch, RenderedFilePath(f), transport)
       IN /\ stored' = IF r.sent THEN stored \cup {RenderedS3Key(f)} ELSE stored
          /\ last' = [NoCall EXCEPT
                        !.fn = "upload_video", !.file = f,
                        !.raised = r.raised, !.ret = r.ret,
                        !.transportFailed = r.attempted /\ ~transport]
    /\ UNCHANGED <<scratch, objects, free>>

CallCleanUpFolder(listable, stuck) ==
    /\ Quiet
    /\ ForgetInvocations
    /\ LET r == clean_up_folder(scratch, listable, stuck)
       IN /\ scratch' = r.scratch
          /\ last' = [NoCall EXCEPT
                        !.fn = "clean_up_folder", !.before = scratch,
                        !.raised = r.raised, !.ret = r.ret]
    /\ UNCHANGED <<objects, free, stored>>

---------------------------------------------------------------------------
\* Spec: the module is used by one caller at a time.  The trigger invokes
\* handler (slot 1), which runs to its end, or one of the functions is
\* called directly.

Next ==
    \/ \E ev \in Events : Quiet /\ Invoke(1, ev)
    \/ handler(1)
    \/ \E f \in Filenames : \E head \in HeadOutcomes(objects[f]) :
          CallCheckAvailableSpace(f, head)
    \/ \E f \in Filenames, transport \in BOOLEAN : CallDownloadVideo(f, transport)
    \/ \E f \in Filenames, childOut \in BOOLEAN, noisy \in BOOLEAN :
          CallRenderVideo(f, childOut, noisy)
    \/ \E f \in Filenames, transport \in BOOLEAN : CallUploadVideo(f, transport)
    \/ \E listable \in BOOLEAN, stuck \in StuckSets(scratch) :
          CallCleanUpFolder(listable, stuck)

Spec == Init /\ [][Next]_vars

\* SpecLive: the trigger invokes handler, one invocation at a time, and an
\* invocation that has started goes on: handler is straight-line code run by
\* one thread, and each of its external calls returns.
NextLive ==
    \/ \E ev \in Events : Quiet /\ Invoke(1, ev)
    \/ handler(1)

SpecLive == Init /\ [][NextLive]_vars /\ WF_vars(handler(1))

\* SpecConc: two triggers invoke handler at the same time on one scratch
\* directory (slots 1 and 2), starting from an empty one; the steps of the
\* two invocations interleave at the statement groups of handler.
InitConc ==
    /\ Init
    /\ Entries(scratch) = {}

NextConc ==
    \/ \E i \in Inv, ev \in Events : Invoke(i, ev)
    \/ \E i \in Inv : handler(i)

SpecConc == InitConc /\ [][NextConc]_vars

---------------------------------------------------------------------------
\* Vocabulary of the properties

Range(s) == { s[k] : k \in 1..Len(s) }

Ran(i, stage) == \E k \in 1..Len(log[i]) : log[i][k].stage = stage
Passed(i, stage) == [stage |-> stage, ok |-> TRUE] \in Range(log[i])
Failed(i, stage) == [stage |-> stage, ok |-> FALSE] \in Range(log[i])

KnownTasks(ev) ==
    \A k \in 1..Len(ev.tasks.list) : ev.tasks.list[k] \in TaskNames

\* A request with a file name and a non-empty list of names of the table.
ValidRequest(ev) ==
    /\ unquote(ev.filename) # <<>>
    /\ ev.tasks.given
    /\ ev.tasks.list # <<>>
    /\ KnownTasks(ev)

\* The messages of the three assertions of lines 217-222.
InvalidRequestErrors ==
    {"filename is required", "task(s) are required", "task must be one of"}

\* The errors that come from a collaborator (the binary, the storage
\* service, the file system), not from the request or the code.
CollaboratorErrors ==
    {"OSError", "BotoCoreError", "download failed, file may not exist",
     "rendering failed", "upload failed"}

\* The world of the scenario of a successful run: the object of the request
\* is in the bucket and fits the scratch filesystem.
Fits(i) ==
    /\ objects[filename(i)] # Missing
    /\ objects[filename(i)][1] <= free

\* What the code does, for the record: no invocation gets past line 220, and
\* no call of render_video returns.
HandlerStopsInValidation ==
    \A i \in Inv : pc[i] \in {"idle", "probe", "validate", "failed"}

RenderVideoAlwaysRaises == last.fn = "render_video" => last.raised # ""

\* check_available_space compares as documented when the size is known.
CapacityGuardCompares ==
    (last.fn = "check_available_space" /\ last.head = "ok"
        /\ objects[last.file] # Missing)
    => /\ last.raised = "Out of space" <=> objects[last.file][1] > free
       /\ last.raised = "" <=> objects[last.file][1] <= free

---------------------------------------------------------------------------
\* C1: a request with an empty file name, with no or an empty task list, or
\* with a task name outside the table fails with an invalid-request error,
\* and no network or child-process call is made before it fails (also where
\* the ffmpeg binary can be started).
C1_InvalidRequestFailsBeforeAnyCall ==
    \A i \in Inv :
        (pc[i] # "idle" /\ ~ValidRequest(event[i]) /\ ~Failed(i, "version"))
        => /\ calls[i] = <<>>
           /\ pc[i] # "done"
           /\ pc[i] = "failed" => err[i] \in InvalidRequestErrors

\* C2: the store is attempted only after validation, capacity check, fetch
\* and render succeeded in the same invocation; success is returned only
\* after the store succeeded; a failed stage is the last stage that runs and
\* ends the invocation with one error.
C2_NoPartialResult ==
    \A i \in Inv :
        /\ (Ran(i, "store") \/ "upload_file" \in Range(calls[i]))
           => /\ Passed(i, "validate") /\ Passed(i, "space")
              /\ Passed(i, "fetch") /\ Passed(i, "render")
        /\ pc[i] = "done" => Passed(i, "store")
        /\ \A k \in 1..Len(log[i]) :
              (~log[i][k].ok /\ log[i][k].stage # "cleanup")
              => /\ k = Len(log[i])
                 /\ pc[i] = "failed"
                 /\ err[i] # ""
        /\ pc[i] = "failed"
           => Cardinality({k \in 1..Len(log[i]) : ~log[i][k].ok}) = 1

\* An invocation that failed in validation: nothing ran after it.
C2_Witness ==
    \E i \in Inv :
        /\ pc[i] = "failed"
        /\ log[i] = << [stage |-> "version", ok |-> TRUE],
                       [stage |-> "validate", ok |-> FALSE] >>
        /\ calls[i] = <<"ffmpeg_version">>
        /\ stored = {}

\* C3: when the object is missing or inaccessible (head_object raises a
\* client error), check_available_space fails with "key not found in bucket".
C3_MissingObjectIsNotFound ==
    (last.fn = "check_available_space" /\ last.head # "BotoCoreError"
        /\ (last.head = "ClientError" \/ objects[last.file] = Missing))
    => last.raised = "key not found in bucket"

\* C4: a valid request whose object is larger than the bytes available fails
\* with "Out of space" and downloads nothing (the version probe having
\* started); when the object fits, the invocation goes on to the fetch.
C4_OutOfSpaceBeforeFetch ==
    \A i \in Inv :
        (pc[i] \in {"failed", "done"} /\ ValidRequest(event[i])
            /\ Passed(i, "version") /\ objects[filename(i)] # Missing)
        => IF objects[filename(i)][1] > free
           THEN err[i] = "Out of space" /\ "download_file" \notin Range(calls[i])
           ELSE Ran(i, "fetch") \/ err[i] \in CollaboratorErrors

\* C5: when the ffmpeg child writes to its standard error, render_video
\* returns False (it does not raise), whether or not an output file exists.
C5_DiagnosticsMeanFailure ==
    (last.fn = "render_video" /\ last.noisy
        /\ last.raised # "video file not downloaded")
    => last.raised = "" /\ last.ret = FALSE

\* C6: a failure of the scratch cleanup, the listing of the directory
\* included, is never an error: clean_up_folder returns, and only a log line
\* tells the failure.
C6_CleanupNeverRaises ==
    /\ last.fn = "clean_up_folder" => last.raised = ""
    /\ \A i \in Inv : Passed(i, "store") => ~Failed(i, "cleanup") \/ pc[i] = "done"

\* C7: a valid request whose object is in the bucket and fits ends with the
\* success marker, after validate, capacity check, fetch, render, store and
\* cleanup in this order, unless a collaborator fails.
C7_FavourableRunSucceeds ==
    \A i \in Inv :
        (ValidRequest(event[i]) /\ Fits(i))
        => /\ pc[i] = "failed" => err[i] \in CollaboratorErrors
           /\ pc[i] = "done"
              => /\ [k \in 1..Len(log[i]) |-> log[i][k].stage]
                    = <<"version", "validate", "clear", "space", "fetch",
                        "render", "store", "cleanup">>
                 /\ RenderedS3Key(filename(i)) \in stored

\* C8: what render_video hands to subprocess.run is the argument list of the
\* task table for a task name, with the input and output paths in it.
C8_RunsResolvedCommand ==
    (last.fn = "render_video" /\ last.args.kind # "none")
    => \E t \in TaskNames :
          last.args = PyList(ffmpeg_tasks(LocalVideoPath(last.file),
                                          RenderedFilePath(last.file))[t])

\* C9: in an invocation that gets to render_video, every task name of the
\* request is in the task table; a request with another name ends in
\* validation.
C9_UnknownTaskNeverRendered ==
    \A i \in Inv :
        /\ (pc[i] \in {"render", "upload", "cleanup", "done"} \/ Ran(i, "render")
               \/ runArgs[i] # NoArgs)
           => event[i].tasks.given /\ KnownTasks(event[i])
        /\ (pc[i] # "idle" /\ ~KnownTasks(event[i]))
           => pc[i] \in {"probe", "validate", "failed"}

\* A request with a file name and a task name outside the table was
\* rejected in validation.
C9_Witness ==
    \E i \in Inv :
        /\ pc[i] = "failed"
        /\ Failed(i, "validate")
        /\ unquote(event[i].filename) # <<>>
        /\ ~KnownTasks(event[i])
        /\ ~Ran(i, "render")

\* C10: download_video and upload_video return False, and do not raise,
\* when the storage client raises; handler ends with "download failed, file
\* may not exist" after a False of the fetch and with "upload failed" after
\* a False of the store.
C10_TransferErrorsReturnFalse ==
    /\ (last.fn \in {"download_video", "upload_video"} /\ last.transportFailed)
       => last.raised = "" /\ last.ret = FALSE
    /\ \A i \in Inv :
          /\ Failed(i, "fetch")
             => pc[i] = "failed" /\ err[i] = "download failed, file may not exist"
          /\ (Failed(i, "store") /\ "upload_file" \in Range(calls[i]))
             => pc[i] = "failed" /\ err[i] = "upload failed"

\* The storage client raised in download_video, which returned False.
C10_Witness ==
    /\ last.fn = "download_video"
    /\ last.transportFailed
    /\ objects[last.file] # Missing
    /\ last.raised = ""
    /\ last.ret = FALSE

\* What clean_up_folder does, for the record: when the listing succeeds it
\* removes every file and directory that does not resist, goes on after a
\* failure, touches nothing else, and returns True exactly when every file
\* and directory is gone; on an empty directory it returns True.
CleanUpFolderRemovesFilesAndDirs ==
    (last.fn = "clean_up_folder" /\ last.raised = "")
    => /\ \A p \in Entries(scratch) : exists(last.before, p)
       /\ \A p \in Entries(last.before) :
             (exists(scratch, p) /\ last.before[p] \in {"file", "dir"})
             => ~last.ret
       /\ last.ret <=> \A p \in Entries(scratch) :
                          scratch[p] \notin {"file", "dir"}
       /\ Entries(last.before) = {} => last.ret

\* C11: when the listing succeeds, clean_up_folder returns True exactly when
\* no entry that was in the directory at the call is still there afterwards.
C11_TrueIffNothingRemains ==
    (last.fn = "clean_up_folder" /\ last.raised = "")
    => (last.ret <=> \A p \in Entries(last.before) : ~exists(scratch, p))

\* Invocation i fetched (or rendered) its file, has not used it yet, and the
\* file is gone.
Clobbered(i) ==
    \/ /\ pc[i] = "render"
       /\ Passed(i, "fetch")
       /\ ~isfile(scratch, LocalVideoPath(filename(i)))
    \/ /\ pc[i] = "upload"
       /\ Passed(i, "render")
       /\ ~exists(scratch, RenderedFilePath(filename(i)))

\* What the code does, for the record: interleaved or not, no invocation
\* changes the scratch directory, and none loses a file it fetched or
\* rendered (none fetches one).
NoInvocationIsClobbered == \A i \in Inv : ~Clobbered(i)

HandlerLeavesScratchAlone ==
    [][(\E i \in Inv : handler(i)) => scratch' = scratch]_vars

\* C12: of two interleaved invocations, one can remove by its start-of-run
\* clear (or its cleanup) the file the other has fetched; for that, an
\* invocation of a valid request that runs while the other is under way, the
\* ffmpeg binary having started, gets to its start-of-run clear.
C12_InterleavedInvocationClears ==
    \A i \in Inv : \A j \in Inv \ {i} :
        (pc[i] \in {"failed", "done"} /\ pc[j] \in Running
            /\ ValidRequest(event[i]) /\ Passed(i, "version"))
        => Ran(i, "clear")

\* The source and rendered files in the scratch directory that invocation i
\* did not write: an earlier run left them.
LeftBehind(i) ==
    { p \in Entries(scratch) :
        \E f \in Filenames : p \in {LocalVideoPath(f), RenderedFilePath(f)} }
    \ created[i]

SourceFiles ==
    { p \in Entries(scratch) : \E f \in Filenames : p = LocalVideoPath(f) }

RenderedFiles ==
    { p \in Entries(scratch) : \E f \in Filenames : p = RenderedFilePath(f) }

C15_MissingInputIsFatal ==
    (last.fn = "render_video"
        /\ ~isfile(last.before, LocalVideoPath(last.file)))
    => /\ last.raised = "video file not downloaded"
       /\ last.args = NoArgs
       /\ scratch = last.before

\* render_video was called for a file that is not in the scratch directory.
C15_Witness ==
    /\ last.fn = "render_video"
    /\ ~exists(last.before, LocalVideoPath(last.file))
    /\ last.raised = "video file not downloaded"
    /\ last.args.kind = "none"

\* No stage of invocation i is in its log twice, and no external call in its
\* calls twice.
NoStageTwice(i) ==
    /\ \A k, l \in 1..Len(log[i]) : log[i][k].stage = log[i][l].stage => k = l
    /\ \A k, l \in 1..Len(calls[i]) : calls[i][k] = calls[i][l] => k = l

\* An invocation that failed stopped at its first failed stage; one that
\* returned the success marker ran its cleanup last.
EndsAtFirstFailure(i) ==
    /\ pc[i] = "failed"
       => /\ log[i] # <<>>
          /\ \A k \in 1..Len(log[i]) : log[i][k].ok <=> k < Len(log[i])
    /\ pc[i] = "done"
       => /\ log[i] # <<>>
          /\ log[i][Len(log[i])].stage = "cleanup"
          /\ \A k \in 1..(Len(log[i]) - 1) : log[i][k].ok

\* C16: every invocation that has started ends, with the success marker or
\* at its first failure, and no stage is run twice in it.
C16_TerminatesWithoutRetry ==
    /\ [](\A i \in Inv : NoStageTwice(i) /\ EndsAtFirstFailure(i))
    /\ \A i \in Inv : (pc[i] \in Running) ~> (pc[i] \in {"done", "failed"})

\* An invocation of a valid request has ended, at the failure of its
\* second stage.
C16_Witness ==
    \E i \in Inv :
        /\ pc[i] = "failed"
        /\ ValidRequest(event[i])
        /\ Len(log[i]) = 2
        /\ ~log[i][2].ok
        /\ NoStageTwice(i)

\* C17: up to the end of its validation an invocation changes neither the
\* scratch directory nor the bucket, and one that failed validation ran no
\* stage after it and made no call but the version probe: what an earlier run
\* left in the scratch directory is still there.
C17_FailedValidationChangesNothing ==
    /\ [][\A i \in Inv :
            (pc[i] \in {"probe", "validate"} /\ pc'[i] # pc[i])
            => /\ scratch' = scratch
               /\ stored' = stored
               /\ objects' = objects]_vars
    /\ [](\A i \in Inv :
            Failed(i, "validate")
            => /\ pc[i] = "failed"
               /\ [k \in 1..Len(log[i]) |-> log[i][k].stage]
                  = <<"version", "validate">>
               /\ calls[i] = <<"ffmpeg_version">>
               /\ created[i] = {})

\* An invocation was refused for its request, and the files of an earlier
\* run are in the scratch directory.
C17_Witness ==
    \E i \in Inv :
        /\ pc[i] = "failed"
        /\ Failed(i, "validate")
        /\ err[i] \in InvalidRequestErrors
        /\ SourceFiles # {}
        /\ RenderedFiles # {}

=============================================================================
